---------------------------- MODULE Spec2Model ----------------------------
(***************************************************************************)
(* gitCleanCommit: the spelling engine (GitCleanSpellChecker), the         *)
(* `spellcheck` command that drives it, and the interactive spell-checked  *)
(* input widget (SpellCheckPrompt) with the host terminal it talks to.     *)
(*                                                                         *)
(* Texts are TLA+ strings; offsets are JavaScript's (0-based, half-open).  *)
(***************************************************************************)
EXTENDS Integers, Sequences, FiniteSets, TLC

VARIABLES
  \* GitCleanSpellChecker statics
  dictionary,         \* "null" or the name of the loaded Typo dictionary
  isInitialized,
  \* the `spellcheck <text>` command (index.ts)
  text,               \* the command's argument
  results,            \* the array returned by checkSpelling, as the command holds it
  textWithUnderlines,
  correctedText,
  recorrectedText,    \* autoCorrectText run again on correctedText
  cmd,                \* position of the command
  \* SpellCheckPrompt (prompt.ts)
  question,
  currentText,
  cursorPosition,
  spellErrors,
  status,
  keypressListener,   \* TRUE when the field holds a listener, FALSE when null
  spellCheckTimeout,  \* 0 for null, else the handle of the last timer set
  previousLineCount,
  enterPc,            \* where the Enter handler is suspended: its awaits
  validation,         \* what question.validate returned, while it is awaited
  result,             \* what question.filter returned, while it is awaited
  resolved,           \* the values done() was called with
  \* the host: process.stdin, process.stdout, the timer queue, the process
  stdinListeners,     \* number of "keypress" listeners on process.stdin
  rawMode,
  timers,             \* handles of the timers set and neither fired nor cleared
  columns,            \* process.stdout.columns, 0 when unavailable
  displayText,        \* the text the last render wrote after the prompt
  process,            \* "running" or "exited"
  \* the terminal: rows are counted from the first row of the last render
  cursorRow,
  cursorCol,          \* 0..width-1, or width: in the last column with the wrap pending
  autoWrap,           \* "deferred" (VT100, xterm) or "immediate"
  \* history
  started,            \* run() was called
  lastEvent,          \* the handler that ran last
  enterText,          \* currentText when Enter was pressed
  validatedText,      \* the text question.validate was called with
  burstKeys,          \* text-mutating keys of the current burst (capped)
  burstChecks,        \* arguments of the checkSpelling calls of the current burst
  \* FormatUtils.truncateText / truncateMessage
  truncateInput,      \* the text argument
  maxLength,
  truncated,          \* the string returned
  truncatePc,         \* "start", then "returned"
  \* ConfigManager
  configFile,         \* .gitclean.json: missing, invalid, or JSON with its content
  cachedConfig,       \* <<>> for null, else <<the config>>
  configError         \* loadConfig threw a ConfigurationError

engineVars ==
  <<dictionary, isInitialized>>
commandVars ==
  <<text, results, textWithUnderlines, correctedText, recorrectedText, cmd>>
widgetVars ==
  <<question, currentText, cursorPosition, spellErrors, status, keypressListener,
    spellCheckTimeout, previousLineCount, enterPc, validation, result, resolved>>
hostVars ==
  <<stdinListeners, rawMode, timers, columns, displayText, process>>
historyVars ==
  <<started, lastEvent, enterText, validatedText, burstKeys, burstChecks>>

terminalVars ==
  <<cursorRow, cursorCol, autoWrap>>
utilVars ==
  <<truncateInput, maxLength, truncated, truncatePc, configFile, cachedConfig, configError>>

vars ==
  <<engineVars, commandVars, widgetVars, hostVars, historyVars, terminalVars, utilVars>>

---------------------------------------------------------------------------
(* Bounds of the model *)

\* texts given to the engine are built from at most MaxPieces pieces of Vocabulary
MaxPieces == 3
\* the widget accepts printable characters while the text is shorter than MaxText
MaxText == 3
\* timer handles are 1..MaxTimers
MaxTimers == 2
\* burstKeys counts up to MaxBurstKeys
MaxBurstKeys == 2
\* truncateText is given texts of at most MaxTruncate characters and a maxLength
\* of at most MaxTruncate
MaxTruncate == 5

---------------------------------------------------------------------------
(* Characters and JavaScript string primitives *)

LOWER == "abcdefghijklmnopqrstuvwxyz"
UPPER == "ABCDEFGHIJKLMNOPQRSTUVWXYZ"
DIGITS == "0123456789"

CharsOf(s) == {SubSeq(s, i, i) : i \in 1..Len(s)}

LowerLetters == CharsOf(LOWER)
UpperLetters == CharsOf(UPPER)
Digits == CharsOf(DIGITS)

\* [a-zA-Z]
IsLetter(c) == c \in LowerLetters \/ c \in UpperLetters

\* \w of a JavaScript regular expression: [A-Za-z0-9_]
IsWordChar(c) == IsLetter(c) \/ c \in Digits \/ c = "_"

\* s.charAt(i), 0-based; "" outside the string
charAt(s, i) == IF i >= 0 /\ i < Len(s) THEN SubSeq(s, i + 1, i + 1) ELSE ""

Min(a, b) == IF a < b THEN a ELSE b
Max(a, b) == IF a > b THEN a ELSE b
Clamp(i, n) == Max(0, Min(i, n))

\* s.substring(a, b): indices clamped to [0, length], swapped when a > b
substring(s, a, b) ==
  LET ca == Clamp(a, Len(s))
      cb == Clamp(b, Len(s))
  IN  SubSeq(s, Min(ca, cb) + 1, Max(ca, cb))

\* s.substring(a)
substringFrom(s, a) == substring(s, a, Len(s))

\* s.slice(a, b) for a, b >= 0
slice(s, a, b) ==
  LET ca == Clamp(a, Len(s))
      cb == Clamp(b, Len(s))
  IN  IF ca >= cb THEN "" ELSE SubSeq(s, ca + 1, cb)

LowerOf == [i \in 1..26 |-> SubSeq(LOWER, i, i)]
UpperIndex(c) == CHOOSE i \in 1..26 : SubSeq(UPPER, i, i) = c
toLowerChar(c) == IF c \in UpperLetters THEN LowerOf[UpperIndex(c)] ELSE c

RECURSIVE toLowerCase(_)
toLowerCase(s) ==
  IF s = "" THEN "" ELSE toLowerChar(SubSeq(s, 1, 1)) \o toLowerCase(SubSeq(s, 2, Len(s)))

\* s.trim(): leading and trailing white space removed
RECURSIVE trimStart(_)
trimStart(s) ==
  IF s # "" /\ SubSeq(s, 1, 1) = " " THEN trimStart(SubSeq(s, 2, Len(s))) ELSE s
RECURSIVE trimEnd(_)
trimEnd(s) ==
  IF s # "" /\ SubSeq(s, Len(s), Len(s)) = " " THEN trimEnd(SubSeq(s, 1, Len(s) - 1)) ELSE s
trim(s) == trimEnd(trimStart(s))

---------------------------------------------------------------------------
(* The spelling engine's tables (spellcheck.ts) *)

TECHNICAL_WORDS ==
  {
    "api", "cli", "ui", "ux", "dom", "json", "xml", "html", "css", "js", "ts", "npm", "yarn",
    "pnpm", "webpack", "vite", "rollup", "babel", "eslint", "prettier", "typescript",
    "javascript", "node", "nodejs", "react", "vue", "angular", "svelte", "scss", "sass",
    "less", "tailwind", "bootstrap", "css3", "html5", "jsx", "tsx", "git", "github", "gitlab",
    "bitbucket", "commit", "push", "pull", "merge", "rebase", "checkout", "branch", "tag",
    "stash", "clone", "fork", "upstream", "origin", "remote", "gitignore", "gitconfig",
    "gitflow", "pr", "mr", "repo", "repository", "submodule", "workflow", "actions", "hooks",
    "changelog", "semver", "docker", "kubernetes", "k8s", "aws", "azure", "gcp", "vercel",
    "netlify", "heroku", "ci", "cd", "devops", "oauth", "jwt", "cors", "csrf", "ssl", "tls",
    "nginx", "apache", "helm", "terraform", "ansible", "jenkins", "http", "https", "tcp",
    "udp", "ssh", "ftp", "smtp", "pop3", "imap", "dns", "url", "uri", "uuid", "regex",
    "websocket", "graphql", "rest", "soap", "grpc", "sql", "nosql", "mongodb", "mysql",
    "postgresql", "sqlite", "redis", "elasticsearch", "firebase", "supabase", "prisma", "orm",
    "crud", "db", "microservices", "monolith", "serverless", "jamstack", "spa", "ssr", "ssg",
    "pwa", "mvc", "mvp", "mvvm", "sdk", "gui", "microservice", "blockchain", "cryptocurrency",
    "ai", "ml", "nlp", "iot", "ar", "vr", "refactor", "refactoring", "optimization",
    "minification", "bundling", "transpilation", "polyfill", "shim", "middleware", "plugin",
    "addon", "md", "txt", "log", "yml", "yaml", "toml", "ini", "cfg", "conf", "env",
    "dockerfile", "makefile", "rakefile", "gemfile", "procfile", "lockfile", "config", "prod",
    "dev", "staging", "localhost", "async", "await", "promise", "callback", "event",
    "listener", "handler", "component", "module", "package", "library", "framework",
    "boilerplate", "template", "scaffold", "generator", "linter", "formatter", "transpiler",
    "compiler", "app", "auth", "util", "utils", "lib", "libs", "src", "dist", "build", "bin",
    "test", "spec", "mock", "stub", "tmp", "temp", "www", "admin", "user", "users", "client",
    "server", "backend", "frontend", "fullstack", "deployment", "infrastructure", "monitoring",
    "logging", "analytics", "metrics", "dashboard", "sidebar", "navbar", "footer", "header",
    "modal", "popup", "tooltip", "dropdown", "carousel", "accordion", "tabs", "pagination",
    "breadcrumb", "stepper", "wizard", "homebrew", "chocolatey", "apt", "yum", "pacman",
    "conda", "pip", "gem", "composer", "maven", "gradle", "nuget", "cargo", "go", "jest",
    "mocha", "chai", "cypress", "selenium", "puppeteer", "playwright", "vitest", "karma",
    "jasmine", "enzyme", "testing", "unittest", "e2e"
  }

TypoPairs ==
  {
    <<"teh", "the">>, <<"hte", "the">>, <<"adn", "and">>, <<"nad", "and">>,
    <<"recieve", "receive">>, <<"recieved", "received">>, <<"recieving", "receiving">>,
    <<"seperate", "separate">>, <<"seperated", "separated">>, <<"seperately", "separately">>,
    <<"definately", "definitely">>, <<"occured", "occurred">>, <<"occuring", "occurring">>,
    <<"perfomance", "performance">>, <<"perfom", "perform">>, <<"sucessful", "successful">>,
    <<"sucessfully", "successfully">>, <<"acording", "according">>, <<"adress", "address">>,
    <<"begining", "beginning">>, <<"beleive", "believe">>, <<"buiness", "business">>,
    <<"diference", "difference">>, <<"enviroment", "environment">>,
    <<"existance", "existence">>, <<"finaly", "finally">>, <<"foriegn", "foreign">>,
    <<"goverment", "government">>, <<"gaurd", "guard">>, <<"happend", "happened">>,
    <<"immediatly", "immediately">>, <<"independant", "independent">>,
    <<"intrested", "interested">>, <<"libary", "library">>, <<"maintainance", "maintenance">>,
    <<"occassion", "occasion">>, <<"prefered", "preferred">>, <<"reccomend", "recommend">>,
    <<"thier", "their">>, <<"truely", "truly">>, <<"usualy", "usually">>, <<"wierd", "weird">>,
    <<"calender", "calendar">>, <<"accomodate", "accommodate">>, <<"achive", "achieve">>,
    <<"achived", "achieved">>, <<"commited", "committed">>, <<"commiting", "committing">>,
    <<"committ", "commit">>, <<"implmentation", "implementation">>,
    <<"implimentation", "implementation">>, <<"documention", "documentation">>,
    <<"confguration", "configuration">>, <<"configuraton", "configuration">>,
    <<"functionallity", "functionality">>, <<"conditon", "condition">>, <<"lenght", "length">>,
    <<"widht", "width">>, <<"heigth", "height">>, <<"compatability", "compatibility">>,
    <<"dependancy", "dependency">>, <<"optmize", "optimize">>, <<"optmized", "optimized">>,
    <<"optmization", "optimization">>, <<"intialize", "initialize">>,
    <<"intializing", "initializing">>, <<"intial", "initial">>, <<"retrun", "return">>,
    <<"reutrn", "return">>, <<"funciton", "function">>, <<"fucntion", "function">>,
    <<"fucntions", "functions">>, <<"valriable", "variable">>, <<"varaible", "variable">>,
    <<"varibles", "variables">>, <<"methdo", "method">>, <<"methos", "method">>,
    <<"classs", "class">>, <<"clases", "classes">>, <<"contructor", "constructor">>,
    <<"contsructor", "constructor">>, <<"compnent", "component">>,
    <<"componnet", "component">>, <<"compoent", "component">>, <<"reponse", "response">>,
    <<"respone", "response">>, <<"reqeust", "request">>, <<"requst", "request">>,
    <<"databse", "database">>, <<"datbase", "database">>, <<"serivce", "service">>,
    <<"servie", "service">>, <<"handlr", "handler">>, <<"handleer", "handler">>,
    <<"listner", "listener">>, <<"lsitener", "listener">>, <<"connecton", "connection">>,
    <<"conection", "connection">>, <<"authetication", "authentication">>,
    <<"athentication", "authentication">>, <<"validaton", "validation">>,
    <<"valiation", "validation">>, <<"authentification", "authentication">>,
    <<"authroization", "authorization">>, <<"bugfixes", "bug fixes">>,
    <<"hotfixes", "hot fixes">>, <<"updat", "update">>, <<"updte", "update">>,
    <<"udpate", "update">>, <<"tsting", "testing">>, <<"tesitng", "testing">>,
    <<"testig", "testing">>
  }

COMMON_TYPOS_has(w) == \E p \in TypoPairs : p[1] = w
COMMON_TYPOS_get(w) == (CHOOSE p \in TypoPairs : p[1] = w)[2]

---------------------------------------------------------------------------
(* The Typo dictionary (typo-js): an opaque object with check and suggest. *)
(* Its content is not part of the program; the model lets the program run  *)
(* with each of a few dictionaries, and with none ("null": the load threw) *)

\* a dictionary of English: knows the usual words, offers corrections
EnglishKnown ==
  {"Fix", "fix", "that", "user", "the", "The", "tea", "function", "handles", "handle",
   "authentication", "bug", "fixes", "is", "in", "isn't", "and", "add", "api",
   "Paris"}
EnglishSuggestions ==
  [w \in {"handls", "teh", "isnt", "isn", "xyz", "Teh"} |->
     CASE w = "handls" -> <<"handles", "handle", "hands", "handed">>
       [] w = "teh"    -> <<"tea", "the">>
       [] w = "Teh"    -> <<"Tea", "The">>
       [] w = "isnt"   -> <<"isn't">>
       [] w = "isn"    -> <<"is", "in">>
       [] w = "xyz"    -> <<>>]

\* "english" as above; "empty" knows nothing and suggests nothing; "all" takes
\* every word it is asked about for a known one
Dictionaries == {"english", "empty", "all"}

\* Typo.check(word)
DictCheck(d, w) ==
  CASE d = "english" -> w \in EnglishKnown
    [] d = "empty"   -> FALSE
    [] d = "all"     -> TRUE

\* Typo.suggest(word)
DictSuggest(d, w) ==
  IF d = "english" /\ w \in DOMAIN EnglishSuggestions THEN EnglishSuggestions[w] ELSE <<>>

\* the outcomes of `new Typo("en_US")` in initialize(): a dictionary, or a throw
LoadOutcomes == Dictionaries \cup {"null"}

\* GitCleanSpellChecker.initialize(): the dictionary afterwards
initialize(outcome) == IF isInitialized THEN dictionary ELSE outcome

\* a faulty getSpellCheckStats: hasDictionary reports that initialize has run
getSpellCheckStatsOfInitialized ==
  [isInitialized |-> isInitialized,
   hasDictionary |-> isInitialized,
   technicalWordsCount |-> Cardinality(TECHNICAL_WORDS),
   typoRulesCount |-> Cardinality(TypoPairs)]

\* GitCleanSpellChecker.getSpellCheckStats()
getSpellCheckStats ==
  [isInitialized |-> isInitialized,
   hasDictionary |-> dictionary # "null",
   technicalWordsCount |-> Cardinality(TECHNICAL_WORDS),
   typoRulesCount |-> Cardinality(TypoPairs)]

---------------------------------------------------------------------------
(* GitCleanSpellChecker *)

\* \b at offset i of s: exactly one of the characters around it is a \w
WordBoundary(s, i) == IsWordChar(charAt(s, i - 1)) # IsWordChar(charAt(s, i))

\* end of the run of letters that starts at i
RECURSIVE LetterRunEnd(_, _)
LetterRunEnd(s, i) == IF IsLetter(charAt(s, i)) THEN LetterRunEnd(s, i + 1) ELSE i

\* /\b[a-zA-Z]+\b/ tried at offset i: the end of the match, or -1. The run is
\* taken greedily and given back one letter at a time until \b holds.
MatchAt(s, i) ==
  IF ~(WordBoundary(s, i) /\ IsLetter(charAt(s, i))) THEN -1
  ELSE LET ends == {k \in (i + 1)..LetterRunEnd(s, i) : WordBoundary(s, k)}
       IN  IF ends = {} THEN -1 ELSE CHOOSE k \in ends : \A m \in ends : m <= k

\* the exec loop of extractWords, from lastIndex i
RECURSIVE extractFrom(_, _)
extractFrom(s, i) ==
  IF i >= Len(s) THEN <<>>
  ELSE LET e == MatchAt(s, i)
       IN  IF e = -1 THEN extractFrom(s, i + 1)
           ELSE <<[word |-> substring(s, i, e), start |-> i, end |-> e]>>
                  \o extractFrom(s, e)

\* a faulty extractWords: `end` taken one past the match
extractWordsEndPastMatch(s) ==
  [k \in 1..Len(extractFrom(s, 0)) |->
     [extractFrom(s, 0)[k] EXCEPT !.end = extractFrom(s, 0)[k].end + 1]]

extractWords(s) == extractFrom(s, 0)

\* suggestions.slice(0, 3)
FirstThree(q) == SubSeq(q, 1, Min(3, Len(q)))

\* /^\d+$/.test(word)
IsNumeric(w) == w # "" /\ \A i \in 1..Len(w) : SubSeq(w, i, i) \in Digits

\* a faulty loop body: the dictionary is asked before the typo rules
checkWordDictionaryFirst(d, w) ==
  LET lowerWord == toLowerCase(w.word)
      finding(sugg) ==
        [word |-> w.word, suggestions |-> sugg, isCorrect |-> FALSE,
         position |-> [start |-> w.start, end |-> w.end]]
  IN  IF Len(w.word) <= 2 \/ IsNumeric(w.word) \/ (Len(w.word) = 1 /\ IsLetter(w.word))
        THEN <<>>
      ELSE IF lowerWord \in TECHNICAL_WORDS THEN <<>>
      ELSE IF d # "null" /\ ~DictCheck(d, w.word)
        THEN <<finding(FirstThree(DictSuggest(d, w.word)))>>
      ELSE IF d # "null" THEN <<>>
      ELSE IF COMMON_TYPOS_has(lowerWord) THEN <<finding(<<COMMON_TYPOS_get(lowerWord)>>)>>
      ELSE <<>>

\* a faulty loop body: the technical words are not looked up
checkWordNoAllowlist(d, w) ==
  LET lowerWord == toLowerCase(w.word)
      finding(sugg) ==
        [word |-> w.word, suggestions |-> sugg, isCorrect |-> FALSE,
         position |-> [start |-> w.start, end |-> w.end]]
  IN  IF Len(w.word) <= 2 \/ IsNumeric(w.word) \/ (Len(w.word) = 1 /\ IsLetter(w.word))
        THEN <<>>
      ELSE IF COMMON_TYPOS_has(lowerWord) THEN <<finding(<<COMMON_TYPOS_get(lowerWord)>>)>>
      ELSE IF d # "null" /\ ~DictCheck(d, w.word)
        THEN <<finding(FirstThree(DictSuggest(d, w.word)))>>
      ELSE <<>>

\* the body of checkSpelling's loop for one word: the findings it pushes
checkWord(d, w) ==
  LET lowerWord == toLowerCase(w.word)
      finding(sugg) ==
        [word |-> w.word, suggestions |-> sugg, isCorrect |-> FALSE,
         position |-> [start |-> w.start, end |-> w.end]]
  IN  IF Len(w.word) <= 2 \/ IsNumeric(w.word) \/ (Len(w.word) = 1 /\ IsLetter(w.word))
        THEN <<>>
      ELSE IF lowerWord \in TECHNICAL_WORDS THEN <<>>
      ELSE IF COMMON_TYPOS_has(lowerWord) THEN <<finding(<<COMMON_TYPOS_get(lowerWord)>>)>>
      ELSE IF d # "null" /\ ~DictCheck(d, w.word)
        THEN <<finding(FirstThree(DictSuggest(d, w.word)))>>
      ELSE <<>>

RECURSIVE checkWords(_, _)
checkWords(d, ws) ==
  IF ws = <<>> THEN <<>> ELSE checkWord(d, Head(ws)) \o checkWords(d, Tail(ws))

\* GitCleanSpellChecker.checkSpelling(message) with dictionary d
checkSpelling(d, message) == checkWords(d, extractWords(message))

\* a faulty sort: the array is left in the order it came in
sortSkipped(errors) == errors

\* Array.prototype.sort((a, b) => b.position.start - a.position.start): stable
RECURSIVE insertDesc(_, _)
insertDesc(e, sorted) ==
  IF sorted = <<>> THEN <<e>>
  ELSE IF Head(sorted).position.start >= e.position.start
    THEN <<Head(sorted)>> \o insertDesc(e, Tail(sorted))
  ELSE <<e>> \o sorted
RECURSIVE sortDescending(_)
sortDescending(errors) ==
  IF errors = <<>> THEN <<>>
  ELSE insertDesc(errors[Len(errors)], sortDescending(SubSeq(errors, 1, Len(errors) - 1)))

\* the escape character \x1b
ESC == "\f"

\* `\x1b[31m\x1b[4m${word}\x1b[0m`
squigglyWord(word) == ESC \o "[31m" \o ESC \o "[4m" \o word \o ESC \o "[0m"

\* chalk.red.underline(word)
redUnderline(word) ==
  ESC \o "[31m" \o ESC \o "[4m" \o word \o ESC \o "[24m" \o ESC \o "[39m"

\* the replacement loop of createSquigglyUnderline
RECURSIVE underlineLoop(_, _)
underlineLoop(res, sortedErrors) ==
  IF sortedErrors = <<>> THEN res
  ELSE LET error == Head(sortedErrors)
       IN  underlineLoop(
             substring(res, 0, error.position.start) \o squigglyWord(error.word)
               \o substringFrom(res, error.position.end),
             Tail(sortedErrors))

\* GitCleanSpellChecker.createSquigglyUnderline(text, errors): the string returned
createSquigglyUnderline(t, errors) ==
  IF Len(errors) = 0 THEN t ELSE underlineLoop(t, sortDescending(errors))

\* ... and the errors array afterwards: errors.sort sorts it in place
errorsAfterUnderline(errors) == IF Len(errors) = 0 THEN errors ELSE sortDescending(errors)

RECURSIVE correctLoop(_, _)
correctLoop(corrected, sortedErrors) ==
  IF sortedErrors = <<>> THEN corrected
  ELSE LET error == Head(sortedErrors)
       IN  correctLoop(
             IF Len(error.suggestions) > 0
               THEN substring(corrected, 0, error.position.start) \o error.suggestions[1]
                      \o substringFrom(corrected, error.position.end)
               ELSE corrected,
             Tail(sortedErrors))

\* GitCleanSpellChecker.autoCorrectText(text) with dictionary d
autoCorrectText(d, t) == correctLoop(t, sortDescending(checkSpelling(d, t)))

\* text.replace(/\x1b\[[0-9;]*m/g, ''): the end of the sequence that starts at i, or -1
RECURSIVE ansiParamsEnd(_, _)
ansiParamsEnd(s, i) ==
  IF charAt(s, i) \in Digits \/ charAt(s, i) = ";" THEN ansiParamsEnd(s, i + 1) ELSE i
AnsiMatchAt(s, i) ==
  IF charAt(s, i) = ESC /\ charAt(s, i + 1) = "["
       /\ charAt(s, ansiParamsEnd(s, i + 2)) = "m"
    THEN ansiParamsEnd(s, i + 2) + 1
    ELSE -1
RECURSIVE stripFrom(_, _)
stripFrom(s, i) ==
  IF i >= Len(s) THEN ""
  ELSE IF AnsiMatchAt(s, i) # -1 THEN stripFrom(s, AnsiMatchAt(s, i))
  ELSE charAt(s, i) \o stripFrom(s, i + 1)
stripAnsi(s) == stripFrom(s, 0)

---------------------------------------------------------------------------
(* The texts the engine is run on *)

Vocabulary ==
  {"teh", "Teh", "api", "isnt", "xyz", "ab", " ", "1", "_", "."}

RECURSIVE TextsUpTo(_)
TextsUpTo(n) ==
  IF n = 0 THEN {""}
  ELSE LET shorter == TextsUpTo(n - 1)
       IN  shorter \cup {t \o v : t \in shorter, v \in Vocabulary}

\* README.md "Interactive Testing", texts of the scenarios, and a proper noun
ExampleTexts ==
  {"Fix fucntion that handls user authetication", "react jwt cors api",
   "the bugfixes isnt handls", "add kubernetes adn teh_api", "Paris"}

Texts == TextsUpTo(MaxPieces) \cup ExampleTexts

---------------------------------------------------------------------------
(* GitCleanSpellChecker's public operations applied to a text, in the order *)
(* the `spellcheck <text>` command calls them. The command calls the last   *)
(* two only for a text with findings; the class does not ask that of its    *)
(* callers, and the model calls them for every text.                        *)

\* nothing is drawn on the terminal
TerminalIdle ==
  /\ cursorRow = 0 /\ cursorCol = 0 /\ autoWrap = "deferred"


\* the utilities are not in use
UtilsIdle ==
  /\ truncateInput = "" /\ maxLength = 0 /\ truncated = "" /\ truncatePc = "start"
  /\ configFile = [state |-> "missing", content |-> <<>>] /\ cachedConfig = <<>> /\ configError = FALSE

EngineInit ==
  /\ dictionary = "null"
  /\ isInitialized = FALSE
  /\ text \in Texts
  /\ results = <<>>
  /\ textWithUnderlines = ""
  /\ correctedText = ""
  /\ recorrectedText = ""
  /\ cmd = "start"
  /\ question = [name |-> "plain", message |-> "p", validate |-> FALSE, filter |-> FALSE]
  /\ currentText = "" /\ cursorPosition = 0 /\ spellErrors = <<>>
  /\ status = "pending" /\ keypressListener = FALSE /\ spellCheckTimeout = 0
  /\ previousLineCount = 1 /\ enterPc = "idle" /\ validation = "true" /\ result = ""
  /\ resolved = <<>> /\ stdinListeners = 0 /\ rawMode = FALSE /\ timers = {}
  /\ columns = 0 /\ displayText = "" /\ process = "running" /\ started = FALSE
  /\ lastEvent = "command" /\ enterText = "" /\ validatedText = "" /\ burstKeys = 0
  /\ burstChecks = <<>>
  /\ TerminalIdle
  /\ UtilsIdle

\* const results = await GitCleanSpellChecker.checkSpelling(text)
CheckSpelling ==
  /\ cmd = "start"
  /\ \E outcome \in LoadOutcomes :
       /\ dictionary' = initialize(outcome)
       /\ results' = checkSpelling(initialize(outcome), text)
  /\ isInitialized' = TRUE
  /\ cmd' = "checked"
  /\ UNCHANGED <<text, textWithUnderlines, correctedText, recorrectedText, widgetVars,
                 hostVars, historyVars, terminalVars, utilVars>>

\* const textWithUnderlines = GitCleanSpellChecker.createSquigglyUnderline(text, results)
CreateSquigglyUnderline ==
  /\ cmd = "checked"
  /\ textWithUnderlines' = createSquigglyUnderline(text, results)
  /\ results' = errorsAfterUnderline(results)
  /\ cmd' = "underlined"
  /\ UNCHANGED <<engineVars, text, correctedText, recorrectedText, widgetVars, hostVars,
                 historyVars, terminalVars, utilVars>>

\* const correctedText = await GitCleanSpellChecker.autoCorrectText(text)
AutoCorrectText ==
  /\ cmd = "underlined"
  /\ correctedText' = autoCorrectText(dictionary, text)
  /\ cmd' = "corrected"
  /\ UNCHANGED <<engineVars, text, results, textWithUnderlines, recorrectedText,
                 widgetVars, hostVars, historyVars, terminalVars, utilVars>>

\* the command run again on the text it printed as corrected
AutoCorrectAgain ==
  /\ cmd = "corrected"
  /\ recorrectedText' = autoCorrectText(dictionary, correctedText)
  /\ cmd' = "recorrected"
  /\ UNCHANGED <<engineVars, text, results, textWithUnderlines, correctedText,
                 widgetVars, hostVars, historyVars, terminalVars, utilVars>>

EngineNext ==
  \/ CheckSpelling
  \/ CreateSquigglyUnderline
  \/ AutoCorrectText
  \/ AutoCorrectAgain

SpecEngine == EngineInit /\ [][EngineNext]_vars

---------------------------------------------------------------------------
(* FormatUtils.truncateText (error-handler.ts) and truncateMessage: the    *)
(* same two statements                                                     *)

\* FormatUtils.truncateText(text, maxLength)
truncateText(t, n) ==
  IF Len(t) <= n THEN t ELSE substring(t, 0, n - 3) \o "..."

\* the texts truncateText is given: the prefixes of a text of MaxTruncate characters
TruncateInputs == {SubSeq(LOWER, 1, k) : k \in 0..MaxTruncate}

---------------------------------------------------------------------------
(* ConfigManager (config-manager.ts) and DEFAULT_CONFIG (default-config.ts) *)

\* DEFAULT_CONFIG: of spellCheck and workflow the fields the tests read, and
\* templates as the one of the sections that are taken whole
DEFAULT_CONFIG ==
  [spellCheck |-> [enabled |-> TRUE, debounceMs |-> 200],
   workflow |-> [autoAdd |-> TRUE, autoPush |-> TRUE],
   templates |-> <<>>]

\* an object without properties
EmptyObject == <<>>

\* the objects that give f1 a value of V1 or leave it out, and the same for f2
PartialObjects(f1, V1, f2, V2) ==
  {a @@ b : a \in {EmptyObject} \cup {f1 :> v : v \in V1},
            b \in {EmptyObject} \cup {f2 :> v : v \in V2}}

\* the spellCheck and workflow sections a user's file may hold
UserSpellCheck == PartialObjects("enabled", BOOLEAN, "debounceMs", {200, 500})
UserWorkflow == PartialObjects("autoAdd", BOOLEAN, "autoPush", BOOLEAN)

\* the objects JSON.parse returns for the user's file
UserConfigs ==
  {s @@ w @@ t :
     s \in {EmptyObject} \cup {"spellCheck" :> v : v \in UserSpellCheck},
     w \in {EmptyObject} \cup {"workflow" :> v : v \in UserWorkflow},
     t \in {EmptyObject} \cup {"templates" :> v : v \in {<<"feat: {message}">>}}}

\* .gitclean.json: missing, not JSON, or JSON for one of UserConfigs
ConfigFiles ==
  {[state |-> "missing", content |-> EmptyObject],
   [state |-> "invalid", content |-> EmptyObject]}
    \cup {[state |-> "json", content |-> u] : u \in UserConfigs}

\* { ...a, ...b }
spread(a, b) ==
  [f \in DOMAIN a \cup DOMAIN b |-> IF f \in DOMAIN b THEN b[f] ELSE a[f]]

\* a faulty mergeConfigs: a section the user gives replaces the default section
mergeConfigsShallow(defaultConfig, userConfig) == spread(defaultConfig, userConfig)

\* ConfigManager.mergeConfigs(defaultConfig, userConfig)
mergeConfigs(defaultConfig, userConfig) ==
  [section \in DOMAIN defaultConfig |->
     IF section \notin DOMAIN userConfig THEN defaultConfig[section]
     ELSE IF section \in {"spellCheck", "workflow"}
       THEN spread(defaultConfig[section], userConfig[section])
     ELSE userConfig[section]]

---------------------------------------------------------------------------
(* The utilities called on their inputs *)

UtilsInit ==
  /\ truncateInput \in TruncateInputs
  /\ maxLength \in 0..MaxTruncate
  /\ truncated = ""
  /\ truncatePc = "start"
  /\ configFile \in ConfigFiles
  /\ cachedConfig = <<>>
  /\ configError = FALSE
  /\ dictionary = "null" /\ isInitialized = FALSE
  /\ text = "" /\ results = <<>> /\ textWithUnderlines = "" /\ correctedText = ""
  /\ recorrectedText = "" /\ cmd = "start"
  /\ question = [name |-> "plain", message |-> "p", validate |-> FALSE, filter |-> FALSE]
  /\ currentText = "" /\ cursorPosition = 0 /\ spellErrors = <<>>
  /\ status = "pending" /\ keypressListener = FALSE /\ spellCheckTimeout = 0
  /\ previousLineCount = 1 /\ enterPc = "idle" /\ validation = "true" /\ result = ""
  /\ resolved = <<>> /\ stdinListeners = 0 /\ rawMode = FALSE /\ timers = {}
  /\ columns = 0 /\ displayText = "" /\ process = "running" /\ started = FALSE
  /\ lastEvent = "utility" /\ enterText = "" /\ validatedText = "" /\ burstKeys = 0
  /\ burstChecks = <<>>
  /\ TerminalIdle

\* const truncated = FormatUtils.truncateText(text, maxLength)
TruncateText ==
  /\ truncatePc = "start"
  /\ truncated' = truncateText(truncateInput, maxLength)
  /\ truncatePc' = "returned"
  /\ UNCHANGED <<truncateInput, maxLength, configFile, cachedConfig, configError,
                 engineVars, commandVars, widgetVars, hostVars, historyVars,
                 terminalVars>>

\* ConfigManager.loadConfig(): the cache it leaves, or the throw
LoadConfig ==
  /\ ~configError
  /\ IF cachedConfig # <<>> THEN UNCHANGED <<cachedConfig, configError>>
     ELSE IF configFile.state = "missing"
       THEN cachedConfig' = <<DEFAULT_CONFIG>> /\ UNCHANGED configError
     ELSE IF configFile.state = "invalid"
       THEN configError' = TRUE /\ UNCHANGED cachedConfig
     ELSE cachedConfig' = <<mergeConfigs(DEFAULT_CONFIG, configFile.content)>>
          /\ UNCHANGED configError
  /\ UNCHANGED <<truncateInput, maxLength, truncated, truncatePc, configFile,
                 engineVars, commandVars, widgetVars, hostVars, historyVars,
                 terminalVars>>

UtilsNext ==
  \/ TruncateText
  \/ LoadConfig

SpecUtils == UtilsInit /\ [][UtilsNext]_vars

---------------------------------------------------------------------------
(* SpellCheckPrompt: the questions it is built with (promptCommit) *)

\* `process.stdout.columns || 80`
DefaultWidth == 80
\* "Keep the first line under 72 characters."
MaxFirstLine == 72

\* the "message" and "body" questions of promptCommit; the message texts are
\* shortened to one letter
Questions ==
  {[name |-> "message", message |-> "m", validate |-> TRUE, filter |-> TRUE],
   [name |-> "body", message |-> "b", validate |-> FALSE, filter |-> TRUE]}

\* the prompt's sessions run without a dictionary (initialize caught the load
\* error and left it null): the typo rules alone produce the findings
SessionDictionaries == {"null"}

\* the validate callback of the "message" question: true, or the message to show
validate(input) ==
  IF Len(trim(input)) < 1 THEN "Please enter a commit message."
  ELSE IF Len(trim(input)) > MaxFirstLine THEN "Keep the first line under 72 characters."
  ELSE "true"

\* a faulty filter: the input is passed through
filterSkipped(input) == input

\* the filter callback of the questions: (input) => input.trim()
filter(input) == trim(input)

\* the printable characters typed in the model
Chars == {"t", "e", "h", " "}

\* the terminal widths of the model (0 would be "columns unavailable")
Widths == {6}

---------------------------------------------------------------------------
(* SpellCheckPrompt: rendering *)

\* stripAnsi(promptPrefix).length, promptPrefix = `${cyan("?")} ${bold(message)} `
promptLength == Len("? " \o question.message \o " ")

terminalWidth == IF columns = 0 THEN DefaultWidth ELSE columns

\* Math.ceil(a / b) for a >= 0, b > 0
Ceil(a, b) == (a + b - 1) \div b

RECURSIVE displayLoop(_, _)
displayLoop(res, sortedErrors) ==
  IF sortedErrors = <<>> THEN res
  ELSE LET error == Head(sortedErrors)
       IN  displayLoop(
             substring(res, 0, error.position.start) \o redUnderline(error.word)
               \o substringFrom(res, error.position.end),
             Tail(sortedErrors))

\* SpellCheckPrompt.createDisplayText() for currentText t and spellErrors errors
createDisplayText(t, errors) ==
  IF Len(errors) = 0 THEN t ELSE displayLoop(t, sortDescending(errors))

\* the terminals of the model: after a character is written in the last
\* column, the cursor stays there with the wrap pending, or moves to the next row
AutoWraps == {"deferred", "immediate"}

\* the cursor after n printable characters are written from (row, col) on a
\* terminal w columns wide
AfterWrite(row, col, n, w) ==
  IF n = 0 THEN [row |-> row, col |-> col]
  ELSE IF (col + n) % w = 0
    THEN IF autoWrap = "deferred"
           THEN [row |-> row + (col + n) \div w - 1, col |-> w]
           ELSE [row |-> row + (col + n) \div w, col |-> 0]
  ELSE [row |-> row + (col + n) \div w, col |-> (col + n) % w]

\* ESC [ n A, ESC [ n C, ESC [ n D: a pending wrap is dropped, the column stays
\* within the row
CursorUp(pos, n, w) == [row |-> pos.row - n, col |-> Min(pos.col, w - 1)]
CursorForward(pos, n, w) == [row |-> pos.row, col |-> Min(w - 1, Min(pos.col, w - 1) + n)]
CursorBack(pos, n, w) == [row |-> pos.row, col |-> Max(0, Min(pos.col, w - 1) - n)]

\* render(), "Move cursor to correct position": the cursor it leaves, from the
\* position `end` where writing the line left it
cursorMoved(t, cursor, end) ==
  LET cursorAbsolutePosition == promptLength + cursor
      endAbsolutePosition == promptLength + Len(t)
      cursorLine == cursorAbsolutePosition \div terminalWidth
      endLine == endAbsolutePosition \div terminalWidth
      cursorColumn == cursorAbsolutePosition % terminalWidth
      endColumn == endAbsolutePosition % terminalWidth
  IN  IF endLine > cursorLine
        THEN IF cursorColumn > 0
               THEN CursorForward(CursorUp(end, endLine - cursorLine, terminalWidth),
                                  cursorColumn, terminalWidth)
               ELSE CursorUp(end, endLine - cursorLine, terminalWidth)
      ELSE IF endColumn > cursorColumn
        THEN CursorBack(end, endColumn - cursorColumn, terminalWidth)
      ELSE end

\* render(), "move cursor back to the start of the first line of our previous
\* render": the row it reaches from the row the cursor is on
eraseStart(row) == IF previousLineCount > 1 THEN row - (previousLineCount - 1) ELSE row

\* console.log(line) with the terminal's cursor where the last render left it:
\* the position after the line's last character, and after the newline
consoleLogEnd(line) == AfterWrite(cursorRow, cursorCol, Len(line), terminalWidth)
afterConsoleLog(line) == [row |-> consoleLogEnd(line).row + 1, col |-> 0]

\* the rows the drawn line occupies
rowsDrawn(shown) == Ceil(promptLength + Len(stripAnsi(shown)), terminalWidth)

\* SpellCheckPrompt.render() with currentText t, cursorPosition cursor and
\* spellErrors errors: what it writes after the prompt, the line count it keeps,
\* where it leaves the cursor, counted from the row it writes the prompt on (the
\* row eraseStart reaches), and spellErrors as createDisplayText's sort leaves it
Render(t, cursor, errors) ==
  IF status = "answered"
    THEN /\ spellErrors' = errors
         /\ UNCHANGED <<displayText, previousLineCount, cursorRow, cursorCol>>
    ELSE \E shown \in {createDisplayText(t, errors)} :
           \E end \in {AfterWrite(0, 0, promptLength + Len(stripAnsi(shown)), terminalWidth)} :
             \E at \in {cursorMoved(t, cursor, end)} :
               /\ spellErrors' = errorsAfterUnderline(errors)
               /\ displayText' = shown
               /\ previousLineCount' = Ceil(promptLength + Len(t), terminalWidth)
               /\ cursorRow' = at.row
               /\ cursorCol' = at.col

---------------------------------------------------------------------------
(* SpellCheckPrompt: timers and listeners *)

\* a faulty clearTimeout: the timer stays pending
clearTimeoutSkipped(handle, pending) == pending

\* clearTimeout(handle): the pending timers afterwards
clearTimeout(handle, pending) == pending \ {handle}

\* `if (this.spellCheckTimeout) { clearTimeout(...); this.spellCheckTimeout = null }`
timersCleared == IF spellCheckTimeout # 0 THEN clearTimeout(spellCheckTimeout, timers) ELSE timers

\* setTimeout: the handle of a new timer
FreeHandles(pending) == (1..MaxTimers) \ pending
newHandle(pending) == CHOOSE h \in FreeHandles(pending) : \A g \in FreeHandles(pending) : h <= g

\* SpellCheckPrompt.performSpellCheck() with currentText t: the timer it leaves
\* set, and spellErrors afterwards
PerformSpellCheck(t) ==
  IF Len(t) = 0
    THEN /\ timers' = timersCleared
         /\ spellCheckTimeout' = 0
    ELSE /\ FreeHandles(timersCleared) # {}
         /\ timers' = timersCleared \cup {newHandle(timersCleared)}
         /\ spellCheckTimeout' = newHandle(timersCleared)

\* a faulty performSpellCheck: the findings are kept when the text is empty
errorsAfterPerformKept(t) == spellErrors

\* ... and spellErrors when it returns: cleared at once for the empty text
errorsAfterPerform(t) == IF Len(t) = 0 THEN <<>> ELSE spellErrors

\* a faulty cleanup: the pending timer is not cleared
cleanupKeepsTimer ==
  [timers |-> timers,
   spellCheckTimeout |-> spellCheckTimeout,
   stdinListeners |-> IF keypressListener THEN stdinListeners - 1 ELSE stdinListeners,
   keypressListener |-> FALSE,
   rawMode |-> FALSE]

\* a faulty cleanup: the keypress listener stays on stdin
cleanupKeepsListener ==
  [timers |-> timersCleared,
   spellCheckTimeout |-> 0,
   stdinListeners |-> stdinListeners,
   keypressListener |-> keypressListener,
   rawMode |-> FALSE]

\* SpellCheckPrompt.cleanup(): the fields and the host afterwards
cleanup ==
  [timers |-> timersCleared,
   spellCheckTimeout |-> 0,
   stdinListeners |-> IF keypressListener THEN stdinListeners - 1 ELSE stdinListeners,
   keypressListener |-> FALSE,
   rawMode |-> FALSE]

\* SpellCheckPrompt.setupKeyHandlers() with n listeners on stdin before it
setupKeyHandlers(n) ==
  [keypressListener |-> TRUE, rawMode |-> TRUE, stdinListeners |-> n + 1]

---------------------------------------------------------------------------
(* SpellCheckPrompt: the state after promptCommit has set up the session   *)
(* (setupEscapeHandler, initialize) and inquirer has constructed the prompt *)

WidgetInit ==
  /\ dictionary \in SessionDictionaries
  /\ isInitialized = TRUE
  /\ text = "" /\ results = <<>> /\ textWithUnderlines = "" /\ correctedText = ""
  /\ recorrectedText = "" /\ cmd = "start"
  /\ question \in Questions
  /\ currentText = ""
  /\ cursorPosition = 0
  /\ spellErrors = <<>>
  /\ status = "pending"
  /\ keypressListener = FALSE
  /\ spellCheckTimeout = 0
  /\ previousLineCount = 1
  /\ enterPc = "idle"
  /\ validation = "true"
  /\ result = ""
  /\ resolved = <<>>
  /\ stdinListeners = 0
  /\ rawMode = TRUE
  /\ timers = {}
  /\ columns \in Widths
  /\ displayText = ""
  /\ process = "running"
  /\ started = FALSE
  /\ lastEvent = "constructed"
  /\ enterText = ""
  /\ validatedText = ""
  /\ burstKeys = 0
  /\ burstChecks = <<>>
  /\ cursorRow = 0 /\ cursorCol = 0
  /\ autoWrap \in AutoWraps
  /\ UtilsIdle

\* a keypress reaches the prompt's listener
Delivering == process = "running" /\ started /\ stdinListeners >= 1

\* run(): render, then setupKeyHandlers
Run ==
  /\ process = "running" /\ ~started
  /\ started' = TRUE
  /\ Render(currentText, cursorPosition, spellErrors)
  /\ keypressListener' = setupKeyHandlers(stdinListeners).keypressListener
  /\ rawMode' = setupKeyHandlers(stdinListeners).rawMode
  /\ stdinListeners' = setupKeyHandlers(stdinListeners).stdinListeners
  /\ lastEvent' = "run"
  /\ UNCHANGED <<engineVars, commandVars, utilVars, autoWrap, question, currentText, cursorPosition, status,
                 spellCheckTimeout, enterPc, validation, result, resolved, timers,
                 columns, process, enterText, validatedText, burstKeys, burstChecks>>

\* the end of the keypress listener, "Handle text input": the text and cursor the
\* key leaves, then performSpellCheck and render
TextInput(newText, newCursor) ==
  LET newBurst == timers = {}
      keys == IF newBurst THEN 0 ELSE burstKeys
  IN  /\ currentText' = newText
      /\ cursorPosition' = newCursor
      /\ PerformSpellCheck(newText)
      /\ Render(newText, newCursor, errorsAfterPerform(newText))
      /\ lastEvent' = "key"
      /\ burstKeys' = IF newText # currentText THEN Min(MaxBurstKeys, keys + 1) ELSE keys
      /\ burstChecks' = IF newBurst THEN <<>> ELSE burstChecks
      /\ UNCHANGED <<engineVars, commandVars, utilVars, autoWrap, question, status, keypressListener, enterPc,
                     validation, result, resolved, stdinListeners, rawMode, columns,
                     process, started, enterText, validatedText>>

\* a faulty insertion: the character is appended, wherever the cursor is
TypeCharAtEnd ==
  /\ Delivering
  /\ Len(currentText) < MaxText
  /\ \E str \in Chars : TextInput(currentText \o str, cursorPosition + 1)

\* a printable character: str.length === 1, no ctrl, no meta
TypeChar ==
  /\ Delivering
  /\ Len(currentText) < MaxText
  /\ \E str \in Chars :
       TextInput(slice(currentText, 0, cursorPosition) \o str
                   \o slice(currentText, cursorPosition, Len(currentText)),
                 cursorPosition + 1)

\* a faulty backspace: the character at the cursor is deleted, not the one before
BackspaceAtCursor ==
  /\ Delivering
  /\ IF cursorPosition > 0
       THEN TextInput(slice(currentText, 0, cursorPosition)
                        \o slice(currentText, cursorPosition + 1, Len(currentText)),
                      cursorPosition - 1)
       ELSE TextInput(currentText, cursorPosition)

\* key.name === "backspace"
Backspace ==
  /\ Delivering
  /\ IF cursorPosition > 0
       THEN TextInput(slice(currentText, 0, cursorPosition - 1)
                        \o slice(currentText, cursorPosition, Len(currentText)),
                      cursorPosition - 1)
       ELSE TextInput(currentText, cursorPosition)

\* any other key (up, down, tab with ctrl, ...): neither branch changes the text
OtherKey ==
  /\ Delivering
  /\ TextInput(currentText, cursorPosition)

\* a faulty navigation: the key falls through to performSpellCheck and render
NavigateRechecks(newCursor, renders) == TextInput(currentText, newCursor)

\* left, right, home, end: the cursor they leave, and whether they render
Navigate(newCursor, renders) ==
  /\ cursorPosition' = newCursor
  /\ IF renders THEN Render(currentText, newCursor, spellErrors)
                ELSE UNCHANGED <<spellErrors, displayText, previousLineCount, cursorRow,
                                 cursorCol>>
  /\ lastEvent' = "key"
  /\ UNCHANGED <<engineVars, commandVars, utilVars, autoWrap, question, currentText, status, keypressListener,
                 spellCheckTimeout, enterPc, validation, result, resolved,
                 stdinListeners, rawMode, timers, columns, process, started, enterText,
                 validatedText, burstKeys, burstChecks>>

Left ==
  /\ Delivering
  /\ IF cursorPosition > 0 THEN Navigate(cursorPosition - 1, TRUE)
                           ELSE Navigate(cursorPosition, FALSE)

\* a faulty right: the cursor moves without the test against the text's length
RightUnclamped == Delivering /\ Navigate(cursorPosition + 1, TRUE)

Right ==
  /\ Delivering
  /\ IF cursorPosition < Len(currentText) THEN Navigate(cursorPosition + 1, TRUE)
                                          ELSE Navigate(cursorPosition, FALSE)

Home == Delivering /\ Navigate(0, TRUE)

End == Delivering /\ Navigate(Len(currentText), TRUE)

\* a faulty timer callback: the findings are assigned and nothing is drawn
TimerFireWithoutRender ==
  /\ process = "running"
  /\ \E handle \in timers :
       /\ timers' = timers \ {handle}
       /\ spellErrors' = checkSpelling(dictionary, currentText)
       /\ UNCHANGED <<displayText, previousLineCount, cursorRow, cursorCol>>
  /\ burstChecks' = Append(burstChecks, currentText)
  /\ lastEvent' = "timer"
  /\ UNCHANGED <<engineVars, commandVars, utilVars, autoWrap, question, currentText, cursorPosition, status,
                 keypressListener, spellCheckTimeout, enterPc, validation, result,
                 resolved, stdinListeners, rawMode, columns, process, started, enterText,
                 validatedText, burstKeys>>

\* the debounce timer fires: checkSpelling(this.currentText), then render if pending
TimerFire ==
  /\ process = "running"
  /\ \E handle \in timers :
       /\ timers' = timers \ {handle}
       /\ IF status = "pending"
            THEN Render(currentText, cursorPosition, checkSpelling(dictionary, currentText))
            ELSE /\ spellErrors' = checkSpelling(dictionary, currentText)
                 /\ UNCHANGED <<displayText, previousLineCount, cursorRow, cursorCol>>
  /\ burstChecks' = Append(burstChecks, currentText)
  /\ lastEvent' = "timer"
  /\ UNCHANGED <<engineVars, commandVars, utilVars, autoWrap, question, currentText, cursorPosition, status,
                 keypressListener, spellCheckTimeout, enterPc, validation, result,
                 resolved, stdinListeners, rawMode, columns, process, started, enterText,
                 validatedText, burstKeys>>

\* return / enter: cleanup, then validate is called (and awaited), or filter is
\* called (and awaited), or the prompt resolves
EnterKey ==
  /\ Delivering
  /\ enterPc = "idle"
  /\ timers' = cleanup.timers
  /\ spellCheckTimeout' = cleanup.spellCheckTimeout
  /\ stdinListeners' = cleanup.stdinListeners
  /\ keypressListener' = cleanup.keypressListener
  /\ rawMode' = cleanup.rawMode
  /\ enterText' = currentText
  /\ burstKeys' = 0
  /\ burstChecks' = <<>>
  /\ IF question.validate
       THEN /\ validation' = validate(currentText)
            /\ validatedText' = currentText
            /\ enterPc' = "validating"
            /\ lastEvent' = "enter"
            /\ UNCHANGED <<result, status, resolved>>
       ELSE IF question.filter
         THEN /\ result' = filter(currentText)
              /\ enterPc' = "filtering"
              /\ lastEvent' = "enter"
              /\ UNCHANGED <<validation, validatedText, status, resolved>>
         ELSE /\ status' = "answered"
              /\ resolved' = Append(resolved, currentText)
              /\ lastEvent' = "resolved"
              /\ UNCHANGED <<validation, validatedText, result, enterPc>>
  /\ UNCHANGED <<engineVars, commandVars, utilVars, autoWrap, question, currentText, cursorPosition,
                 spellErrors, previousLineCount, columns, displayText, process, started,
                 cursorRow, cursorCol>>

\* the Enter handler resumes after `await this.question.validate(...)`
EnterValidated ==
  /\ process = "running"
  /\ enterPc = "validating"
  /\ IF validation # "true"
       THEN /\ currentText' = ""
            /\ cursorPosition' = 0
            /\ Render("", 0, <<>>)
            /\ keypressListener' = setupKeyHandlers(stdinListeners).keypressListener
            /\ rawMode' = setupKeyHandlers(stdinListeners).rawMode
            /\ stdinListeners' = setupKeyHandlers(stdinListeners).stdinListeners
            /\ enterPc' = "idle"
            /\ lastEvent' = "rejected"
            /\ enterText' = ""
            /\ validatedText' = ""
            /\ UNCHANGED <<result, status, resolved>>
       ELSE IF question.filter
         THEN /\ result' = filter(currentText)
              /\ enterPc' = "filtering"
              /\ lastEvent' = "enter"
              /\ UNCHANGED <<currentText, cursorPosition, spellErrors, displayText,
                             previousLineCount, keypressListener, rawMode,
                             stdinListeners, status, resolved, enterText,
                             validatedText, cursorRow, cursorCol>>
         ELSE /\ status' = "answered"
              /\ resolved' = Append(resolved, currentText)
              /\ enterPc' = "idle"
              /\ lastEvent' = "resolved"
              /\ UNCHANGED <<currentText, cursorPosition, spellErrors, displayText,
                             previousLineCount, keypressListener, rawMode,
                             stdinListeners, result, enterText, validatedText,
                             cursorRow, cursorCol>>
  /\ UNCHANGED <<engineVars, commandVars, utilVars, autoWrap, question, spellCheckTimeout, validation, timers,
                 columns, process, started, burstKeys, burstChecks>>

\* the Enter handler resumes after `await this.question.filter(...)`
EnterFiltered ==
  /\ process = "running"
  /\ enterPc = "filtering"
  /\ status' = "answered"
  /\ resolved' = Append(resolved, result)
  /\ enterPc' = "idle"
  /\ lastEvent' = "resolved"
  /\ UNCHANGED <<engineVars, commandVars, utilVars, autoWrap, question, currentText, cursorPosition,
                 spellErrors, keypressListener, spellCheckTimeout, previousLineCount,
                 validation, result, hostVars, started, enterText, validatedText,
                 burstKeys, burstChecks, cursorRow, cursorCol>>

\* process.exit(0): the process is gone, and with it its timers and the prompt's
\* buffers; stdin's mode and what was written to the terminal stay as they are;
\* the cursor is the shell's again and is no longer followed
Exit ==
  /\ process' = "exited"
  /\ currentText' = "" /\ cursorPosition' = 0 /\ spellErrors' = <<>>
  /\ validation' = "true" /\ result' = "" /\ enterText' = "" /\ validatedText' = ""
  /\ burstKeys' = 0 /\ burstChecks' = <<>>
  /\ cursorRow' = 0 /\ cursorCol' = 0
  /\ UNCHANGED <<engineVars, commandVars, utilVars, autoWrap, question, status, previousLineCount, enterPc,
                 resolved, columns, displayText, started>>

\* key.name === "escape" in the prompt's keypress listener: cleanup, process.exit(0)
EscapeKey ==
  /\ Delivering
  /\ timers' = cleanup.timers
  /\ spellCheckTimeout' = cleanup.spellCheckTimeout
  /\ stdinListeners' = cleanup.stdinListeners
  /\ keypressListener' = cleanup.keypressListener
  /\ rawMode' = cleanup.rawMode
  /\ lastEvent' = "escape"
  /\ Exit

\* the "data" listener of setupEscapeHandler sees "\u001B" or "\u0003":
\* handleEscapeKey prints the box and calls process.exit(0)
SessionEscape ==
  /\ process = "running"
  /\ timers' = {}
  /\ lastEvent' = "sessionEscape"
  /\ UNCHANGED <<spellCheckTimeout, stdinListeners, keypressListener, rawMode>>
  /\ Exit

Next ==
  \/ Run
  \/ TypeChar
  \/ Backspace
  \/ OtherKey
  \/ Left
  \/ Right
  \/ Home
  \/ End
  \/ TimerFire
  \/ EnterKey
  \/ EnterValidated
  \/ EnterFiltered
  \/ EscapeKey
  \/ SessionEscape

Spec == WidgetInit /\ [][Next]_vars

\* the editing keys are followed on the "message" question and one terminal
KeysInit ==
  /\ WidgetInit
  /\ question.name = "message"
  /\ autoWrap = "deferred"

SpecKeys == KeysInit /\ [][Next]_vars

\* the steps in which the timer queue runs a callback: those of TimerFire, told
\* by what only they do
TimerDue ==
  /\ process = "running"
  /\ \E handle \in timers : timers' = timers \ {handle}
  /\ lastEvent' = "timer"

\* the timer queue is fair: a timer that stays set is eventually run
SpecLive == WidgetInit /\ [][Next]_vars /\ WF_timers(TimerDue)
---------------------------------------------------------------------------
(* Properties of the engine, checked under SpecEngine *)

AllowlistNeverFlagged ==
  cmd # "start" =>
    /\ \A i \in 1..Len(results) : toLowerCase(results[i].word) \notin TECHNICAL_WORDS
    /\ (text = "react jwt cors api" => results = <<>>)

\* C3: "react jwt cors api" checked with a dictionary that knows no word
AllowlistWitness ==
  /\ cmd = "checked"
  /\ dictionary = "empty"
  /\ text = "react jwt cors api"
  /\ results = <<>>

\* C7 (as stated): autoCorrectText applied to its own result returns it unchanged
AutoCorrectIdempotent ==
  cmd = "recorrected" => recorrectedText = correctedText

\* the text with each finding's span replaced by the finding's first suggestion,
\* built left to right from findings in ascending order
RECURSIVE Rebuilt(_, _, _)
Rebuilt(t, findings, from) ==
  IF findings = <<>> THEN substringFrom(t, from)
  ELSE LET f == Head(findings)
       IN  substring(t, from, f.position.start)
             \o (IF Len(f.suggestions) > 0 THEN f.suggestions[1]
                 ELSE substring(t, f.position.start, f.position.end))
             \o Rebuilt(t, Tail(findings), f.position.end)

\* C8: autoCorrectText(text) is the text with the span of every finding that has
\* a suggestion replaced by its first suggestion and everything else kept; it is
\* the text itself when there are no findings; the README's example comes out as
\* "Fix function that handles user authentication"
AutoCorrectReplacesFirstSuggestions ==
  cmd \in {"corrected", "recorrected"} =>
    /\ correctedText = Rebuilt(text, checkSpelling(dictionary, text), 0)
    /\ (checkSpelling(dictionary, text) = <<>> => correctedText = text)
    /\ (text = "Fix fucntion that handls user authetication" /\ dictionary = "english"
          => correctedText = "Fix function that handles user authentication")

\* C8: the README's example corrected with the English dictionary
AutoCorrectWitness ==
  /\ cmd = "corrected"
  /\ dictionary = "english"
  /\ text = "Fix fucntion that handls user authetication"
  /\ correctedText = "Fix function that handles user authentication"

\* C9: the findings checkSpelling returns are in strictly ascending order of
\* start, their spans do not overlap and lie within the text, and each finding's
\* word is the substring of the text at its span
FindingsOrderedDisjointExact ==
  cmd = "checked" =>
    /\ \A i \in 1..Len(results) :
         /\ 0 <= results[i].position.start
         /\ results[i].position.start < results[i].position.end
         /\ results[i].position.end <= Len(text)
         /\ results[i].word
              = substring(text, results[i].position.start, results[i].position.end)
    /\ \A i, j \in 1..Len(results) :
         i < j => results[i].position.end <= results[j].position.start

\* C9: a text checked with two findings or more
FindingsWitness ==
  cmd = "checked" /\ Len(results) >= 2

\* the starts of the words of t that the typo rules alone flag: longer than two
\* characters, not a technical word, a key of COMMON_TYPOS
TypoRuleStarts(t) ==
  {extractWords(t)[k].start : k \in
     {k \in 1..Len(extractWords(t)) :
        LET lowerWord == toLowerCase(extractWords(t)[k].word)
        IN  /\ Len(lowerWord) > 2
            /\ lowerWord \notin TECHNICAL_WORDS
            /\ COMMON_TYPOS_has(lowerWord)}}

VerdictIgnoresCase ==
  cmd = "checked" =>
    {results[i].position.start : i \in 1..Len(results)}
      = {checkSpelling(dictionary, toLowerCase(text))[i].position.start :
           i \in 1..Len(checkSpelling(dictionary, toLowerCase(text)))}

\* C13 (as stated): after createSquigglyUnderline and autoCorrectText the
\* command's findings are the sequence checkSpelling returned, in text order
HighlightLeavesFindingsInTextOrder ==
  cmd \in {"underlined", "corrected", "recorrected"} =>
    /\ results = checkSpelling(dictionary, text)
    /\ \A i, j \in 1..Len(results) :
         i < j => results[i].position.start < results[j].position.start

\* the maximal runs of letters of s from offset i on, each with its offsets
RECURSIVE LetterRunsFrom(_, _)
LetterRunsFrom(s, i) ==
  IF i >= Len(s) THEN <<>>
  ELSE IF IsLetter(charAt(s, i))
    THEN <<[word |-> substring(s, i, LetterRunEnd(s, i)), start |-> i,
            end |-> LetterRunEnd(s, i)]>> \o LetterRunsFrom(s, LetterRunEnd(s, i))
  ELSE LetterRunsFrom(s, i + 1)

\* C27 (as stated): the candidate words of a checked text are exactly its
\* maximal runs of letters, each with its start and end offset, whatever
\* characters adjoin the run
CandidatesAreLetterRuns ==
  cmd = "checked" => extractWords(text) = LetterRunsFrom(text, 0)

---------------------------------------------------------------------------
(* Properties of the utilities, checked under SpecUtils *)

\* C14 (as stated): a text longer than maxLength comes back with length
\* maxLength and ending in "...", a text of length at most maxLength comes back
\* unchanged, for every maxLength >= 0
TruncateToMaxLength ==
  truncatePc = "returned" =>
    IF Len(truncateInput) > maxLength
      THEN /\ Len(truncated) = maxLength
           /\ substringFrom(truncated, Len(truncated) - 3) = "..."
      ELSE truncated = truncateInput

\* C15: the config loadConfig caches for a user's file has, in spellCheck and in
\* workflow, the user's value for every field the user gives and the default's
\* value for every other field; a section the user leaves out is the default's;
\* without a file the config is the default
LoadConfigMergesWithDefaults ==
  cachedConfig # <<>> =>
    IF configFile.state = "json"
      THEN LET userConfig == configFile.content
               config == cachedConfig[1]
           IN  /\ \A section \in {"spellCheck", "workflow"} :
                    \A f \in DOMAIN DEFAULT_CONFIG[section] :
                      /\ f \in DOMAIN config[section]
                      /\ config[section][f] =
                           IF section \in DOMAIN userConfig /\ f \in DOMAIN userConfig[section]
                             THEN userConfig[section][f]
                             ELSE DEFAULT_CONFIG[section][f]
               /\ \A section \in DOMAIN DEFAULT_CONFIG \ DOMAIN userConfig :
                    config[section] = DEFAULT_CONFIG[section]
      ELSE cachedConfig[1] = DEFAULT_CONFIG

\* C15: the file of config-manager.test.ts, loaded
LoadConfigWitness ==
  /\ configFile.state = "json"
  /\ DOMAIN configFile.content = {"spellCheck", "workflow"}
  /\ configFile.content.spellCheck = ("debounceMs" :> 500)
  /\ configFile.content.workflow = ("autoPush" :> FALSE)
  /\ cachedConfig # <<>>
  /\ cachedConfig[1].spellCheck = [enabled |-> TRUE, debounceMs |-> 500]
  /\ cachedConfig[1].workflow = [autoAdd |-> TRUE, autoPush |-> FALSE]

---------------------------------------------------------------------------
(* Properties of the prompt, checked under Spec *)

RejectionResetsAndRearms ==
  lastEvent = "rejected" =>
    /\ status = "pending"
    /\ currentText = "" /\ cursorPosition = 0 /\ spellErrors = <<>>
    /\ displayText = ""
    /\ resolved = <<>>
    /\ keypressListener /\ stdinListeners = 1 /\ rawMode
    /\ enterPc = "idle"
    /\ Delivering

\* C4: the validator's message came back and the prompt was re-armed
RejectionWitness ==
  /\ lastEvent = "rejected"
  /\ question.validate
  /\ validation = "Please enter a commit message."
  /\ stdinListeners = 1

\* C5: the prompt resolves at most once, with the filtered text that was in the
\* buffer when Enter was pressed, which is the text the validator accepted; the
\* buffer does not change while the Enter handler is suspended; once resolved,
\* the prompt is answered
ResolvesOnceWithFilteredText ==
  /\ Len(resolved) <= 1
  /\ (status = "answered" <=> Len(resolved) = 1)
  /\ (process = "running" =>
        /\ (enterPc # "idle" => currentText = enterText /\ status = "pending")
        /\ (enterPc = "filtering" /\ question.validate =>
              validatedText = enterText /\ validation = "true")
        /\ (status = "answered" =>
              /\ resolved[1] = IF question.filter THEN trim(enterText) ELSE enterText
              /\ currentText = enterText
              /\ (question.validate => validatedText = enterText /\ validation = "true")
              /\ timers = {} /\ stdinListeners = 0))

\* C5: a text with a space around it was validated, trimmed and resolved
ResolvedWitness ==
  /\ status = "answered"
  /\ question.validate
  /\ enterText # trim(enterText)
  /\ resolved = <<trim(enterText)>>

\* C6 (as stated): when the process exits on Escape with the prompt pending, no
\* keypress listener is attached to stdin and stdin is not in raw mode
EscapeRestoresTerminal ==
  (process = "exited" /\ started /\ status = "pending" /\ enterPc = "idle") =>
    (stdinListeners = 0 /\ ~rawMode)

\* C10 (as stated): the highlighted text with its style sequences stripped is the
\* text, for the text and the findings the prompt holds
HighlightStripsToText ==
  started => stripAnsi(createDisplayText(currentText, spellErrors)) = currentText

\* C16: at most one debounce timer is pending, and it is the one scheduled
\* last: a timer that a later keystroke has replaced is not pending and cannot
\* fire
AtMostOneTimerPending ==
  /\ Cardinality(timers) <= 1
  /\ (timers # {} => timers = {spellCheckTimeout})

\* C16: a second text-mutating key of a burst has replaced the first one's timer
TimerReplacedWitness ==
  /\ process = "running"
  /\ burstKeys = MaxBurstKeys
  /\ burstChecks = <<>>
  /\ Cardinality(timers) = 1

\* C17 (as stated): after a key of the burst has changed the text and while
\* the debounce timer is pending, the prompt holds no findings and the text is
\* drawn without highlight
TextChangeInvalidatesFindings ==
  (process = "running" /\ status = "pending" /\ burstKeys > 0 /\ timers # {}) =>
    (spellErrors = <<>> /\ displayText = currentText)

\* C18 (as stated): the text drawn after the prompt, with the style sequences
\* stripped, is the text buffer
DrawnTextIsBuffer ==
  (process = "running" /\ started) => stripAnsi(displayText) = currentText

\* C19 (as stated): whenever the prompt can render again, the erase that
\* render starts with covers exactly the rows of the previous render: it starts
\* on the prompt's first row, wherever the cursor was left, and takes as many
\* rows as were drawn
EraseCoversPreviousRender ==
  (process = "running" /\ started /\ status = "pending" /\ rawMode)
    => /\ eraseStart(cursorRow) = 0
       /\ previousLineCount = rowsDrawn(displayText)

\* C20 (as stated): after every render the terminal's cursor is at the logical
\* cursor position: row (promptLength + cursorPosition) \div width below the
\* prompt's first row, column (promptLength + cursorPosition) % width
CursorAtLogicalPosition ==
  (process = "running" /\ started /\ status = "pending" /\ rawMode)
    => /\ cursorRow = (promptLength + cursorPosition) \div terminalWidth
       /\ cursorCol = (promptLength + cursorPosition) % terminalWidth

\* C21 (as stated): when Enter is rejected, the render that follows the
\* validator's message starts its erase below the last row of the message, so
\* the message is neither erased nor overwritten, whatever rows the rejected
\* text took
ValidationMessageStaysVisible ==
  [][(enterPc = "validating" /\ lastEvent' = "rejected")
       => eraseStart(afterConsoleLog(">> " \o validation).row)
            > consoleLogEnd(">> " \o validation).row]_vars

\* C22: in every state the cursor index is within the text: 0 <= cursor <= length
CursorWithinText ==
  /\ cursorPosition >= 0
  /\ cursorPosition <= Len(currentText)

\* C22: after a rejected Enter and further keys, the cursor is strictly inside
\* the text
CursorInsideWitness ==
  /\ process = "running"
  /\ validation # "true"
  /\ lastEvent = "key"
  /\ cursorPosition > 0
  /\ cursorPosition < Len(currentText)

\* C26: in every state in which the prompt is answered, its keypress listener
\* is detached, the terminal is not in raw mode and no debounce timer is
\* pending, so that no key and no timer can check or draw any more
AnsweredIsQuiet ==
  status = "answered" =>
    /\ ~keypressListener
    /\ stdinListeners = 0
    /\ ~rawMode
    /\ timers = {}
    /\ spellCheckTimeout = 0

\* C26: the prompt is answered with a text whose typo was never checked: Enter
\* cancelled the timer the last key had scheduled
AnsweredWitness ==
  /\ process = "running"
  /\ status = "answered"
  /\ resolved = <<"teh">>
  /\ currentText = "teh"
  /\ spellErrors = <<>>

\* the findings as a set
FindingSet(errors) == {errors[k] : k \in 1..Len(errors)}

\* C28 (as stated): in every pending state in which no debounce timer is
\* pending, the findings the prompt holds are those of a check of its text
FindingsAreCurrentWhenIdle ==
  (process = "running" /\ started /\ status = "pending" /\ timers = {})
    => FindingSet(spellErrors) = FindingSet(checkSpelling(dictionary, currentText))

\* C28: in every pending state in which keys are delivered (no Enter is being
\* handled) and no debounce timer is pending, the findings the prompt holds
\* are those of a check of its text; they are none when the text is empty
FindingsAreCurrentWhenIdleAndListening ==
  (process = "running" /\ started /\ status = "pending" /\ timers = {}
     /\ keypressListener)
    => /\ FindingSet(spellErrors) = FindingSet(checkSpelling(dictionary, currentText))
       /\ currentText = "" => spellErrors = <<>>

\* C28: the timer has fired on a text with a typo, and the prompt holds the
\* finding
FindingsCurrentWitness ==
  /\ process = "running"
  /\ status = "pending"
  /\ keypressListener
  /\ timers = {}
  /\ lastEvent = "timer"
  /\ spellErrors # <<>>

\* C30 (as stated): after every render the line count kept for the next erase
\* is the wrapped row of the text's end plus one, by the geometry that places
\* the cursor: (promptLength + length) \div width + 1, exact multiples of the
\* width included
LineCountIsEndRowPlusOne ==
  (process = "running" /\ started /\ status = "pending")
    => previousLineCount = (promptLength + Len(currentText)) \div terminalWidth + 1

---------------------------------------------------------------------------
(* Properties of the editing keys, checked under SpecKeys *)

\* C23: a key that makes the text one character longer has inserted one typed
\* character at the cursor, the characters before and after it kept in order,
\* and has moved the cursor one to the right
InsertAtCursor ==
  [][(lastEvent' = "key" /\ Len(currentText') = Len(currentText) + 1)
       => /\ \E ch \in Chars :
               currentText' = SubSeq(currentText, 1, cursorPosition) \o ch
                                \o SubSeq(currentText, cursorPosition + 1, Len(currentText))
          /\ cursorPosition' = cursorPosition + 1]_vars

\* C23: a text of full length whose one text-changing key of the burst, still
\* unchecked, can only have been an insertion; the cursor is inside the text
InsertedInsideWitness ==
  /\ process = "running"
  /\ lastEvent = "key"
  /\ Len(currentText) = MaxText
  /\ cursorPosition = 1
  /\ burstKeys = 1
  /\ burstChecks = <<>>
  /\ timers # {}

\* C24: a backspace with the cursor at c > 0 deletes exactly the character at
\* index c - 1 and leaves the cursor at c - 1; with the cursor at 0 it leaves
\* text and cursor as they are, also when the text is not empty
BackspaceDeletesBeforeCursor ==
  [][Backspace =>
       IF cursorPosition > 0
         THEN /\ currentText' = SubSeq(currentText, 1, cursorPosition - 1)
                                  \o SubSeq(currentText, cursorPosition + 1, Len(currentText))
              /\ cursorPosition' = cursorPosition - 1
         ELSE UNCHANGED <<currentText, cursorPosition>>]_vars

\* C24: the text-changing keys of a burst have left the text empty: the last of
\* them was a backspace with the cursor behind a character
BackspaceWitness ==
  /\ process = "running"
  /\ lastEvent = "key"
  /\ burstKeys = MaxBurstKeys
  /\ currentText = ""
  /\ cursorPosition = 0
  /\ timers = {}

\* what a navigation key leaves as it is
NavigationFrame ==
  UNCHANGED <<currentText, spellErrors, timers, spellCheckTimeout, burstChecks>>

\* C25: left, right, home and end change only the cursor, by one step within
\* the text or to its start or end: the text and the findings are unchanged, no
\* check is made, and the pending timer is neither cancelled nor rescheduled
NavigationChangesOnlyCursor ==
  [][/\ Left => (NavigationFrame /\ cursorPosition' = Max(0, cursorPosition - 1))
     /\ Right => (NavigationFrame
                    /\ cursorPosition' = Min(Len(currentText), cursorPosition + 1))
     /\ Home => (NavigationFrame /\ cursorPosition' = 0)
     /\ End => (NavigationFrame /\ cursorPosition' = Len(currentText))]_vars

\* C25: a timer is pending and the findings of an earlier check are held while
\* the cursor is away from the end of the text, where only navigation puts it
NavigationWitness ==
  /\ process = "running"
  /\ lastEvent = "key"
  /\ timers # {}
  /\ spellErrors # <<>>
  /\ cursorPosition < Len(currentText)

---------------------------------------------------------------------------
(* Progress of the debounced check, checked under SpecLive *)

\* a key has left a text that is not empty, and its debounce timer is pending
CheckScheduled ==
  /\ process = "running"
  /\ status = "pending"
  /\ currentText # ""
  /\ timers # {}

\* the timer callback has run last: the prompt is pending, holds the findings of
\* a check of its text, and the line is drawn with them
CheckedAndDrawn ==
  /\ lastEvent = "timer"
  /\ status = "pending"
  /\ timers = {}
  /\ FindingSet(spellErrors) = FindingSet(checkSpelling(dictionary, currentText))
  /\ displayText = createDisplayText(currentText, spellErrors)

\* a further key event has cancelled the timer: Enter, Escape, or a key that
\* left the text empty
CheckCancelled ==
  /\ timers = {}
  /\ lastEvent # "timer"

\* C29: once a key has left a non-empty text and a debounce timer, the timer
\* eventually fires, the findings become those of a check of the current text
\* and the line is drawn with them while the prompt is pending, unless a
\* further key event cancels the timer
CheckEventuallyDrawn ==
  CheckScheduled ~> (CheckedAndDrawn \/ CheckCancelled)

\* C29: the timer has fired after the keys of a burst, once and on the current
\* text, and the typo is drawn highlighted
CheckDrawnWitness ==
  /\ CheckedAndDrawn
  /\ burstChecks = <<currentText>>
  /\ spellErrors # <<>>
  /\ displayText # currentText
=============================================================================
